---- MODULE Spec2Model ----
(***************************************************************************)
(* A model of the brainfuck repository: the interpreter (src/src/bf.c:     *)
(* main, build_jump_table, execute_program) and the compiler front end     *)
(* (src/bfc/src/lexer.c, parser.c, ast.c).                                 *)
(*                                                                         *)
(* C indices are kept 0-based: At(s, k) reads the k-th byte of a buffer.   *)
(***************************************************************************)
EXTENDS Integers, Sequences, FiniteSets, TLC

(***************************************************************************)
(* Bounds of the model.                                                    *)
(***************************************************************************)
\* longest program handed to the interpreter
MaxLen == 4
\* most bytes putchar may write before the model stops following a run
MaxOutput == 2
\* most bytes stdin delivers before end-of-input
MaxInput == 1
\* farthest the cursor is followed from memory[0], in either direction
MaxCursor == 2

(***************************************************************************)
(* Program constants.                                                      *)
(***************************************************************************)
MEMORY_SIZE == 30000
PROGRAM_SIZE == 100000
\* number of values of an unsigned char cell
UCHAR_RANGE == 256
\* stdio's EOF, what getchar() returns at end-of-input
EOF == -1
\* the content of an int of jump_table[] that was never assigned
Uninit == -1

Commands == {">", "<", "+", "-", ".", ",", "[", "]"}
\* one byte standing for every byte that is not a command
Alphabet == Commands \cup {"x"}
\* bytes stdin can deliver
InputBytes == {0, 65}
\* what a byte outside the tape may hold when it is first read
GarbageBytes == {0, 1}

At(s, k) == s[k + 1]

SeqsUpTo(S, n) == UNION {[1..m -> S] : m \in 0..n}

VARIABLES
    \* ---- interpreter, src/src/bf.c
    program,          \* char program[PROGRAM_SIZE], the bytes read_program stored
    program_length,   \* int program_length
    main_pc,          \* where main is: "build", "built", "exec", "done", "crashed",
                      \* "clobbered"
    i,                \* build_jump_table's loop index
    stack,            \* build_jump_table's stack[0..stack_ptr-1]
    unmatched_close,  \* build_jump_table's unmatched_close
    jump_table,       \* int jump_table[PROGRAM_SIZE], restricted to 0..program_length-1
    unmatched,        \* main's unmatched (build_jump_table's return value)
    err_msgs,         \* the counts printed to stderr by build_jump_table
    memory,           \* unsigned char memory[MEMORY_SIZE]: the non-zero cells
    cell,             \* execute_program's cell, as an index (cell - memory)
    pc,               \* execute_program's pc
    output,           \* the bytes putchar wrote
    in_count,         \* the bytes getchar consumed
    at_eof,           \* stdin reached end-of-input
    exec_entered,     \* execute_program was called
    exit_status,      \* main's return value, -2 while main runs
    dec_count,        \* history: the '-' executed so far, -1 when not recorded
    rd,               \* read_program's parameters, locals and return value
    \* ---- tokenizer, src/bfc/src/lexer.c
    lexer,            \* struct Lexer
    \* ---- what a client of the tokenizer has seen (history, not program state)
    n_next,           \* calls of lexer_next so far
    last_op,          \* the latest call: "none", "peek" or "next"
    last_ret,         \* what the latest lexer_peek returned
    peeks_in_row,     \* lexer_peek calls since the latest lexer_next, at most 2
    seen_eof,         \* some lexer_peek returned TOKEN_EOF
    alternating,      \* the calls so far are peek, next, peek, next, ...
    yielded,          \* what the first lexer_peek after each lexer_next returned
    \* ---- parser and AST, src/bfc/src/parser.c and ast.c
    heap,             \* the ASTNodes and child arrays malloc and realloc handed out
    fail_at,          \* which allocation request fails (1 = the first), 0 for none
    frames,           \* the call stack of parser_parse and parse_loop
    parse_state,      \* "idle", "running", "returned" or "crashed"
    result            \* the ASTNode * parser_parse returned, 0 for NULL

bfVars == <<program, program_length, main_pc, i, stack, unmatched_close,
            jump_table, unmatched, err_msgs, memory, cell, pc, output,
            in_count, at_eof, exec_entered, exit_status, dec_count, rd>>

clientVars == <<n_next, last_op, last_ret, peeks_in_row, seen_eof, alternating, yielded>>

\* the compiler front end's variables, which the interpreter never touches
parVars == <<heap, fail_at, frames, parse_state, result>>

feVars == <<lexer, clientVars, parVars>>

vars == <<bfVars, feVars>>

stack_ptr == Len(stack)

(***************************************************************************)
(* The tape.  memory holds the cells that are not 0 and every byte outside *)
(* the tape that was touched; an untouched cell of the tape reads 0.       *)
(***************************************************************************)
InTape(k) == 0 <= k /\ k < MEMORY_SIZE

Load(mem, k) == IF k \in DOMAIN mem THEN mem[k] ELSE 0

Store(mem, k, v) ==
    IF v = 0 /\ InTape(k)
    THEN [x \in (DOMAIN mem) \ {k} |-> mem[x]]
    ELSE [x \in (DOMAIN mem) \cup {k} |-> IF x = k THEN v ELSE mem[x]]

\* the values a read of *cell can give: the cell's, or, outside the tape
\* and never touched, whatever the neighbouring memory holds
CellValues(mem, k) ==
    IF InTape(k) \/ k \in DOMAIN mem THEN {Load(mem, k)} ELSE GarbageBytes

\* the conversion of an int to unsigned char
ToUChar(n) == n % UCHAR_RANGE

\* read_program is not running
ReadIdle ==
    [pc |-> "idle", exists |-> FALSE, file |-> <<>>, fpos |-> 0, max_size |-> 0,
     buffer |-> <<>>, length |-> 0, ch |-> Uninit, ret |-> -2]

(***************************************************************************)
(* main, up to the call of build_jump_table: read_program has stored the   *)
(* program.                                                                *)
(***************************************************************************)
InitBf ==
    /\ program \in SeqsUpTo(Alphabet, MaxLen)
    /\ program_length = Len(program)
    /\ main_pc = "build"
    /\ i = 0
    /\ stack = <<>>
    /\ unmatched_close = 0
    /\ jump_table = [k \in 0..(Len(program) - 1) |-> Uninit]
    /\ unmatched = 0
    /\ err_msgs = <<>>
    /\ memory = <<>>
    /\ cell = 0
    /\ pc = 0
    /\ output = <<>>
    /\ in_count = 0
    /\ at_eof = FALSE
    /\ exec_entered = FALSE
    /\ exit_status = -2
    /\ dec_count = -1
    /\ rd = ReadIdle

execVars == <<memory, cell, pc, output, in_count, at_eof, exec_entered, exit_status>>

(***************************************************************************)
(* build_jump_table: one iteration of the scan.                            *)
(***************************************************************************)
\* BuildStep recording only the forward direction of a pair
BuildStep_ForwardOnly ==
    /\ main_pc = "build"
    /\ i < program_length
    /\ LET ch == At(program, i) IN
       IF ch = "["
       THEN /\ stack' = Append(stack, i)
            /\ UNCHANGED <<jump_table, unmatched_close>>
       ELSE IF ch = "]"
       THEN IF stack_ptr > 0
            THEN LET open_pos == stack[stack_ptr] IN
                 /\ stack' = SubSeq(stack, 1, stack_ptr - 1)
                 /\ jump_table' = [jump_table EXCEPT ![open_pos] = i]
                 /\ UNCHANGED unmatched_close
            ELSE /\ unmatched_close' = unmatched_close + 1
                 /\ UNCHANGED <<stack, jump_table>>
       ELSE UNCHANGED <<stack, jump_table, unmatched_close>>
    /\ i' = i + 1
    /\ UNCHANGED <<program, program_length, main_pc, unmatched, err_msgs>>
    /\ UNCHANGED execVars
    /\ UNCHANGED <<dec_count, rd>>
    /\ UNCHANGED feVars

BuildStep ==
    /\ main_pc = "build"
    /\ i < program_length
    /\ LET ch == At(program, i) IN
       IF ch = "["
       THEN /\ stack' = Append(stack, i)
            /\ UNCHANGED <<jump_table, unmatched_close>>
       ELSE IF ch = "]"
       THEN IF stack_ptr > 0
            THEN LET open_pos == stack[stack_ptr] IN
                 /\ stack' = SubSeq(stack, 1, stack_ptr - 1)
                 /\ jump_table' = [jump_table EXCEPT ![open_pos] = i, ![i] = open_pos]
                 /\ UNCHANGED unmatched_close
            ELSE /\ unmatched_close' = unmatched_close + 1
                 /\ UNCHANGED <<stack, jump_table>>
       ELSE UNCHANGED <<stack, jump_table, unmatched_close>>
    /\ i' = i + 1
    /\ UNCHANGED <<program, program_length, main_pc, unmatched, err_msgs>>
    /\ UNCHANGED execVars
    /\ UNCHANGED <<dec_count, rd>>
    /\ UNCHANGED feVars

\* BuildReturn forgetting the brackets left open on the stack
BuildReturn_CloseOnly ==
    /\ main_pc = "build"
    /\ i >= program_length
    /\ LET total_unmatched == unmatched_close IN
       /\ err_msgs' = IF total_unmatched > 0
                      THEN Append(err_msgs, total_unmatched)
                      ELSE err_msgs
       /\ unmatched' = total_unmatched
    /\ main_pc' = "built"
    /\ UNCHANGED <<program, program_length, i, stack, unmatched_close, jump_table>>
    /\ UNCHANGED execVars
    /\ UNCHANGED <<dec_count, rd>>
    /\ UNCHANGED feVars

\* BuildReturn counting only the '[' left on the stack
BuildReturn_OpenOnly ==
    /\ main_pc = "build"
    /\ i >= program_length
    /\ LET total_unmatched == stack_ptr IN
       /\ err_msgs' = IF total_unmatched > 0
                      THEN Append(err_msgs, total_unmatched)
                      ELSE err_msgs
       /\ unmatched' = total_unmatched
    /\ main_pc' = "built"
    /\ UNCHANGED <<program, program_length, i, stack, unmatched_close, jump_table>>
    /\ UNCHANGED execVars
    /\ UNCHANGED <<dec_count, rd>>
    /\ UNCHANGED feVars

\* the end of the scan: the totals, the diagnostic, the return to main
BuildReturn ==
    /\ main_pc = "build"
    /\ i >= program_length
    /\ LET unmatched_open == stack_ptr
           total_unmatched == unmatched_open + unmatched_close IN
       /\ err_msgs' = IF total_unmatched > 0
                      THEN Append(err_msgs, total_unmatched)
                      ELSE err_msgs
       /\ unmatched' = total_unmatched
    /\ main_pc' = "built"
    /\ UNCHANGED <<program, program_length, i, stack, unmatched_close, jump_table>>
    /\ UNCHANGED execVars
    /\ UNCHANGED <<dec_count, rd>>
    /\ UNCHANGED feVars

(***************************************************************************)
(* main after build_jump_table returned: unmatched brackets end the run    *)
(* with their count as the status; otherwise the tape is zeroed and        *)
(* execute_program is entered.                                             *)
(***************************************************************************)
\* MainCheck without the test of unmatched
MainCheck_NoGate ==
    /\ main_pc = "built"
    /\ memory' = <<>>
    /\ cell' = 0
    /\ pc' = 0
    /\ exec_entered' = TRUE
    /\ main_pc' = "exec"
    /\ UNCHANGED exit_status
    /\ UNCHANGED <<program, program_length, i, stack, unmatched_close,
                   jump_table, unmatched, err_msgs, output, in_count, at_eof>>
    /\ UNCHANGED <<dec_count, rd>>
    /\ UNCHANGED feVars

MainCheck ==
    /\ main_pc = "built"
    /\ IF unmatched # 0
       THEN /\ exit_status' = unmatched
            /\ main_pc' = "done"
            /\ UNCHANGED <<memory, cell, pc, exec_entered>>
       ELSE /\ memory' = <<>>
            /\ cell' = 0
            /\ pc' = 0
            /\ exec_entered' = TRUE
            /\ main_pc' = "exec"
            /\ UNCHANGED exit_status
    /\ UNCHANGED <<program, program_length, i, stack, unmatched_close,
                   jump_table, unmatched, err_msgs, output, in_count, at_eof>>
    /\ UNCHANGED <<dec_count, rd>>
    /\ UNCHANGED feVars

(***************************************************************************)
(* execute_program: one iteration of the for loop per action, the pc++ of  *)
(* the loop header included.                                               *)
(***************************************************************************)
buildVars == <<program, program_length, i, stack, unmatched_close,
               jump_table, unmatched, err_msgs>>

Fetching(cmd) ==
    /\ main_pc = "exec"
    /\ pc < program_length
    /\ At(program, pc) = cmd

\* what a read of jump_table[k] can give: an entry never assigned holds
\* whatever the stack held
JumpGarbage == (-1)..(program_length - 1)

JumpValues(k) == IF jump_table[k] = Uninit THEN JumpGarbage ELSE {jump_table[k]}

ExecRight ==
    /\ Fetching(">")
    /\ cell < MaxCursor
    /\ cell' = cell + 1
    /\ pc' = pc + 1
    /\ UNCHANGED <<memory, output, in_count, at_eof, exec_entered, exit_status, main_pc>>
    /\ UNCHANGED buildVars
    /\ UNCHANGED <<dec_count, rd>>
    /\ UNCHANGED feVars

ExecLeft ==
    /\ Fetching("<")
    /\ cell > -MaxCursor
    /\ cell' = cell - 1
    /\ pc' = pc + 1
    /\ UNCHANGED <<memory, output, in_count, at_eof, exec_entered, exit_status, main_pc>>
    /\ UNCHANGED buildVars
    /\ UNCHANGED <<dec_count, rd>>
    /\ UNCHANGED feVars

\* ExecInc that stops at 255 instead of wrapping
ExecInc_Saturating ==
    /\ Fetching("+")
    /\ \E v \in CellValues(memory, cell) :
          memory' = Store(memory, cell, IF v = UCHAR_RANGE - 1 THEN v ELSE v + 1)
    /\ pc' = pc + 1
    /\ UNCHANGED <<cell, output, in_count, at_eof, exec_entered, exit_status, main_pc>>
    /\ UNCHANGED buildVars
    /\ UNCHANGED <<dec_count, rd>>
    /\ UNCHANGED feVars

ExecInc ==
    /\ Fetching("+")
    /\ \E v \in CellValues(memory, cell) :
          memory' = Store(memory, cell, ToUChar(v + 1))
    /\ pc' = pc + 1
    /\ UNCHANGED <<cell, output, in_count, at_eof, exec_entered, exit_status, main_pc>>
    /\ UNCHANGED buildVars
    /\ UNCHANGED <<dec_count, rd>>
    /\ UNCHANGED feVars

ExecDec ==
    /\ Fetching("-")
    /\ \E v \in CellValues(memory, cell) :
          memory' = Store(memory, cell, ToUChar(v - 1))
    /\ pc' = pc + 1
    /\ dec_count' = IF dec_count < 0 THEN dec_count ELSE dec_count + 1
    /\ UNCHANGED <<cell, output, in_count, at_eof, exec_entered, exit_status, main_pc>>
    /\ UNCHANGED buildVars
    /\ UNCHANGED rd
    /\ UNCHANGED feVars

\* ExecOutput writing the byte twice
ExecOutput_Twice ==
    /\ Fetching(".")
    /\ Len(output) < MaxOutput
    /\ \E v \in CellValues(memory, cell) :
          /\ output' = output \o <<v, v>>
          /\ memory' = Store(memory, cell, v)
    /\ pc' = pc + 1
    /\ UNCHANGED <<cell, in_count, at_eof, exec_entered, exit_status, main_pc>>
    /\ UNCHANGED buildVars
    /\ UNCHANGED <<dec_count, rd>>
    /\ UNCHANGED feVars

ExecOutput ==
    /\ Fetching(".")
    /\ Len(output) < MaxOutput
    /\ \E v \in CellValues(memory, cell) :
          /\ output' = Append(output, v)
          /\ memory' = Store(memory, cell, v)
    /\ pc' = pc + 1
    /\ UNCHANGED <<cell, in_count, at_eof, exec_entered, exit_status, main_pc>>
    /\ UNCHANGED buildVars
    /\ UNCHANGED <<dec_count, rd>>
    /\ UNCHANGED feVars

\* *cell = getchar() with a byte waiting on stdin
ExecInputByte ==
    /\ Fetching(",")
    /\ ~at_eof
    /\ in_count < MaxInput
    /\ \E b \in InputBytes :
          memory' = Store(memory, cell, ToUChar(b))
    /\ in_count' = in_count + 1
    /\ pc' = pc + 1
    /\ UNCHANGED <<cell, output, at_eof, exec_entered, exit_status, main_pc>>
    /\ UNCHANGED buildVars
    /\ UNCHANGED <<dec_count, rd>>
    /\ UNCHANGED feVars

\* *cell = getchar() at end-of-input: getchar returns EOF and the
\* assignment converts it to unsigned char
\* ExecInputEof leaving the cell as it is at end-of-input
ExecInputEof_KeepsCell ==
    /\ Fetching(",")
    /\ \E v \in CellValues(memory, cell) : memory' = Store(memory, cell, v)
    /\ at_eof' = TRUE
    /\ pc' = pc + 1
    /\ UNCHANGED <<cell, output, in_count, exec_entered, exit_status, main_pc>>
    /\ UNCHANGED buildVars
    /\ UNCHANGED <<dec_count, rd>>
    /\ UNCHANGED feVars

ExecInputEof ==
    /\ Fetching(",")
    /\ memory' = Store(memory, cell, ToUChar(EOF))
    /\ at_eof' = TRUE
    /\ pc' = pc + 1
    /\ UNCHANGED <<cell, output, in_count, exec_entered, exit_status, main_pc>>
    /\ UNCHANGED buildVars
    /\ UNCHANGED <<dec_count, rd>>
    /\ UNCHANGED feVars

\* ExecLoopStart that enters the body whatever the cell holds
ExecLoopStart_NoSkip ==
    /\ Fetching("[")
    /\ \E v \in CellValues(memory, cell) :
          /\ memory' = Store(memory, cell, v)
          /\ pc' = pc + 1
    /\ UNCHANGED <<cell, output, in_count, at_eof, exec_entered, exit_status, main_pc>>
    /\ UNCHANGED buildVars
    /\ UNCHANGED <<dec_count, rd>>
    /\ UNCHANGED feVars

ExecLoopStart ==
    /\ Fetching("[")
    /\ \E v \in CellValues(memory, cell) :
          /\ memory' = Store(memory, cell, v)
          /\ IF v = 0
             THEN \E t \in JumpValues(pc) : pc' = t + 1
             ELSE pc' = pc + 1
    /\ UNCHANGED <<cell, output, in_count, at_eof, exec_entered, exit_status, main_pc>>
    /\ UNCHANGED buildVars
    /\ UNCHANGED <<dec_count, rd>>
    /\ UNCHANGED feVars

\* ExecLoopEnd that never jumps back
ExecLoopEnd_FallThrough ==
    /\ Fetching("]")
    /\ \E v \in CellValues(memory, cell) :
          /\ memory' = Store(memory, cell, v)
          /\ pc' = pc + 1
    /\ UNCHANGED <<cell, output, in_count, at_eof, exec_entered, exit_status, main_pc>>
    /\ UNCHANGED buildVars
    /\ UNCHANGED <<dec_count, rd>>
    /\ UNCHANGED feVars

\* ExecLoopEnd with the guard inverted: jumps back on a zero cell
ExecLoopEnd_Inverted ==
    /\ Fetching("]")
    /\ \E v \in CellValues(memory, cell) :
          /\ memory' = Store(memory, cell, v)
          /\ IF v = 0
             THEN \E t \in JumpValues(pc) : pc' = t + 1
             ELSE pc' = pc + 1
    /\ UNCHANGED <<cell, output, in_count, at_eof, exec_entered, exit_status, main_pc>>
    /\ UNCHANGED buildVars
    /\ UNCHANGED <<dec_count, rd>>
    /\ UNCHANGED feVars

ExecLoopEnd ==
    /\ Fetching("]")
    /\ \E v \in CellValues(memory, cell) :
          /\ memory' = Store(memory, cell, v)
          /\ IF v # 0
             THEN \E t \in JumpValues(pc) : pc' = t + 1
             ELSE pc' = pc + 1
    /\ UNCHANGED <<cell, output, in_count, at_eof, exec_entered, exit_status, main_pc>>
    /\ UNCHANGED buildVars
    /\ UNCHANGED <<dec_count, rd>>
    /\ UNCHANGED feVars

\* default: any other byte is ignored
ExecOther ==
    /\ main_pc = "exec"
    /\ pc < program_length
    /\ At(program, pc) \notin Commands
    /\ pc' = pc + 1
    /\ UNCHANGED <<memory, cell, output, in_count, at_eof, exec_entered, exit_status, main_pc>>
    /\ UNCHANGED buildVars
    /\ UNCHANGED <<dec_count, rd>>
    /\ UNCHANGED feVars

\* *cell with cell outside memory[] is undefined: besides reading or
\* writing the neighbouring byte (the actions above), the process may die
ExecFault ==
    /\ main_pc = "exec"
    /\ pc < program_length
    /\ At(program, pc) \in {"+", "-", ".", ",", "[", "]"}
    /\ ~InTape(cell)
    /\ main_pc' = "crashed"
    /\ UNCHANGED <<memory, cell, pc, output, in_count, at_eof, exec_entered, exit_status>>
    /\ UNCHANGED buildVars
    /\ UNCHANGED <<dec_count, rd>>
    /\ UNCHANGED feVars

\* the for loop ends: return 0, which main returns
ExecReturn ==
    /\ main_pc = "exec"
    /\ pc >= program_length
    /\ exit_status' = 0
    /\ main_pc' = "done"
    /\ UNCHANGED <<memory, cell, pc, output, in_count, at_eof, exec_entered>>
    /\ UNCHANGED buildVars
    /\ UNCHANGED <<dec_count, rd>>
    /\ UNCHANGED feVars

ExecStep ==
    \/ ExecRight \/ ExecLeft \/ ExecInc \/ ExecDec \/ ExecOutput
    \/ ExecInputByte \/ ExecInputEof \/ ExecLoopStart \/ ExecLoopEnd
    \/ ExecOther \/ ExecFault

NextBf == BuildStep \/ BuildReturn \/ MainCheck \/ ExecStep \/ ExecReturn

(***************************************************************************)
(* main's arrays program, jump_table and memory are neighbours on its      *)
(* stack, so a store through cell outside memory[] (undefined) may land in *)
(* one of the others instead of in a byte nobody reads.                    *)
(***************************************************************************)
\* (*cell)++ or (*cell)-- with cell outside memory[]: an entry of
\* jump_table takes another value.  The run is not followed past such a
\* store (main_pc "clobbered").
ExecClobber ==
    /\ main_pc = "exec"
    /\ pc < program_length
    /\ At(program, pc) \in {"+", "-"}
    /\ ~InTape(cell)
    /\ \E k \in DOMAIN jump_table, t \in JumpGarbage :
          jump_table' = [jump_table EXCEPT ![k] = t]
    /\ pc' = pc + 1
    /\ main_pc' = "clobbered"
    /\ UNCHANGED <<program, program_length, i, stack, unmatched_close, unmatched, err_msgs>>
    /\ UNCHANGED <<memory, cell, output, in_count, at_eof, exec_entered, exit_status>>
    /\ UNCHANGED <<dec_count, rd>>
    /\ UNCHANGED feVars

NextBfAliased == NextBf \/ ExecClobber

(***************************************************************************)
(* The programs of the reference idioms, run by main from build_jump_table *)
(* on: n '+' then '.', "[-]" on a cell holding v with a non-zero           *)
(* neighbour, and n '+' then "[>+<-]".                                     *)
(***************************************************************************)
\* the longest run of '+' in front of '.'
MaxPlus == 258

\* n times the byte c
Repeat(c, n) == [k \in 1..n |-> c]

OutputPrograms == {Repeat("+", n) \o <<".">> : n \in 0..MaxPlus}

ClearPrograms ==
    {<<"+", ">">> \o Repeat("+", v) \o <<"[", "-", "]">> : v \in 0..(UCHAR_RANGE - 1)}

MovePrograms ==
    {Repeat("+", n) \o <<"[", ">", "+", "<", "-", "]">> : n \in 0..(UCHAR_RANGE - 1)}

InitIdioms ==
    /\ program \in OutputPrograms \cup ClearPrograms \cup MovePrograms
    /\ program_length = Len(program)
    /\ main_pc = "build"
    /\ i = 0
    /\ stack = <<>>
    /\ unmatched_close = 0
    /\ jump_table = [k \in 0..(Len(program) - 1) |-> Uninit]
    /\ unmatched = 0
    /\ err_msgs = <<>>
    /\ memory = <<>>
    /\ cell = 0
    /\ pc = 0
    /\ output = <<>>
    /\ in_count = 0
    /\ at_eof = FALSE
    /\ exec_entered = FALSE
    /\ exit_status = -2
    /\ dec_count = 0
    /\ rd = ReadIdle

\* the steps of main these programs can take: they hold no ',' and no
\* other byte, and the cursor stays on the tape
NextIdioms ==
    \/ BuildStep \/ BuildReturn \/ MainCheck
    \/ ExecRight \/ ExecLeft \/ ExecInc \/ ExecDec \/ ExecOutput
    \/ ExecLoopStart \/ ExecLoopEnd \/ ExecReturn

(***************************************************************************)
(* main on programs of nothing but unmatched brackets, and the status the  *)
(* process ends with: the low eight bits of main's return value.           *)
(***************************************************************************)
\* the most brackets in such a program
MaxBrackets == 257

InitUnmatched ==
    /\ program \in {Repeat("[", n) : n \in 1..MaxBrackets}
                   \cup {Repeat("]", n) : n \in 1..MaxBrackets}
    /\ program_length = Len(program)
    /\ main_pc = "build"
    /\ i = 0
    /\ stack = <<>>
    /\ unmatched_close = 0
    /\ jump_table = [k \in 0..(Len(program) - 1) |-> Uninit]
    /\ unmatched = 0
    /\ err_msgs = <<>>
    /\ memory = <<>>
    /\ cell = 0
    /\ pc = 0
    /\ output = <<>>
    /\ in_count = 0
    /\ at_eof = FALSE
    /\ exec_entered = FALSE
    /\ exit_status = -2
    /\ dec_count = -1
    /\ rd = ReadIdle

NextUnmatched == BuildStep \/ BuildReturn \/ MainCheck

\* what the parent process sees of the int main returned
ProcessStatus(ret) == ret % UCHAR_RANGE

(***************************************************************************)
(* read_program: one evaluation of the while condition, with the body if   *)
(* it holds, per action.  fgetc gives the file's next byte as 0..255, or   *)
(* EOF at its end.                                                         *)
(***************************************************************************)
\* the longest file read
MaxFileLen == 4
\* the largest max_size
MaxCap == 2

FileBytes == {43, 255}

interpVars == <<buildVars, main_pc, execVars, dec_count>>

InitRead ==
    \E exists \in BOOLEAN, max_size \in 0..MaxCap :
       \E file \in IF exists THEN SeqsUpTo(FileBytes, MaxFileLen) ELSE {<<>>} :
          rd = [ReadIdle EXCEPT !.pc = "open", !.exists = exists,
                                !.file = file, !.max_size = max_size]

\* fopen, and the return of -1 when it fails
ReadProgramOpen ==
    /\ rd.pc = "open"
    /\ IF ~rd.exists
       THEN rd' = [rd EXCEPT !.ret = -1, !.pc = "done"]
       ELSE rd' = [rd EXCEPT !.length = 0, !.pc = "loop"]
    /\ UNCHANGED <<interpVars, feVars>>

fgetc(r) == IF r.fpos < Len(r.file) THEN At(r.file, r.fpos) ELSE EOF

ReadProgramLoop ==
    /\ rd.pc = "loop"
    /\ LET ch == fgetc(rd)
           r1 == [rd EXCEPT !.ch = ch,
                            !.fpos = IF ch = EOF THEN @ ELSE @ + 1] IN
       IF ch # EOF /\ r1.length < r1.max_size
       THEN rd' = [r1 EXCEPT !.buffer = Append(@, ToUChar(ch)), !.length = @ + 1]
       ELSE rd' = [r1 EXCEPT !.pc = "after"]
    /\ UNCHANGED <<interpVars, feVars>>

\* ReadProgramReturn without the size check
ReadProgramReturn_NoCapCheck ==
    /\ rd.pc = "after"
    /\ rd' = [rd EXCEPT !.ret = rd.length, !.pc = "done"]
    /\ UNCHANGED <<interpVars, feVars>>

\* fclose, the size check and the return
ReadProgramReturn ==
    /\ rd.pc = "after"
    /\ IF rd.ch # EOF /\ rd.length = rd.max_size
       THEN rd' = [rd EXCEPT !.ret = -1, !.pc = "done"]
       ELSE rd' = [rd EXCEPT !.ret = rd.length, !.pc = "done"]
    /\ UNCHANGED <<interpVars, feVars>>

NextRead == ReadProgramOpen \/ ReadProgramLoop \/ ReadProgramReturn

(***************************************************************************)
(* The tokenizer, src/bfc/src/lexer.c.  Its functions are operators on the *)
(* value of struct Lexer; one that also returns a value gives a record of  *)
(* the new struct and the value.                                           *)
(***************************************************************************)
\* longest source buffer handed to the tokenizer
MaxSrcLen == 3
\* most calls of lexer_next a client makes
MaxNext == 4

TokenTypes == {"TOKEN_RIGHT", "TOKEN_LEFT", "TOKEN_INC", "TOKEN_DEC", "TOKEN_OUTPUT",
               "TOKEN_INPUT", "TOKEN_LOOP_START", "TOKEN_LOOP_END", "TOKEN_EOF"}

\* current_token before the first scan: malloc'ed and never assigned
NoToken == [type |-> "indeterminate", position |-> -1]

lexer_create(source, length) ==
    [source |-> source, position |-> 0, length |-> length,
     current_token |-> NoToken, token_valid |-> 0]

\* the condition of lexer_next_token's skip loop on the byte ch
IsCommandByte(ch) ==
    ch = ">" \/ ch = "<" \/ ch = "+" \/ ch = "-" \/ ch = "." \/
    ch = "," \/ ch = "[" \/ ch = "]"

RECURSIVE SkipNonCommands(_, _)
\* the position lexer_next_token's skip loop ends at, started at pos
SkipNonCommands(lx, pos) ==
    IF pos < lx.length /\ ~IsCommandByte(At(lx.source, pos))
    THEN SkipNonCommands(lx, pos + 1)
    ELSE pos

\* lexer_next_token's switch
TokenOfByte(ch) ==
    CASE ch = ">" -> "TOKEN_RIGHT"
      [] ch = "<" -> "TOKEN_LEFT"
      [] ch = "+" -> "TOKEN_INC"
      [] ch = "-" -> "TOKEN_DEC"
      [] ch = "." -> "TOKEN_OUTPUT"
      [] ch = "," -> "TOKEN_INPUT"
      [] ch = "[" -> "TOKEN_LOOP_START"
      [] ch = "]" -> "TOKEN_LOOP_END"
      [] OTHER -> "TOKEN_EOF"

\* lexer_next_token leaving the cursor on the command it returns
lexer_next_token_NoAdvance(lx) ==
    LET p == SkipNonCommands(lx, lx.position) IN
    IF p >= lx.length
    THEN [lexer |-> [lx EXCEPT !.position = p],
          token |-> [type |-> "TOKEN_EOF", position |-> p]]
    ELSE [lexer |-> [lx EXCEPT !.position = p],
          token |-> [type |-> TokenOfByte(At(lx.source, p)), position |-> p]]

lexer_next_token(lx) ==
    LET p == SkipNonCommands(lx, lx.position) IN
    IF p >= lx.length
    THEN [lexer |-> [lx EXCEPT !.position = p],
          token |-> [type |-> "TOKEN_EOF", position |-> p]]
    ELSE [lexer |-> [lx EXCEPT !.position = p + 1],
          token |-> [type |-> TokenOfByte(At(lx.source, p)), position |-> p]]

\* lexer_peek scanning on every call, cached token or not
lexer_peek_NoCache(lx) ==
    LET r == lexer_next_token(lx) IN
    [lexer |-> [r.lexer EXCEPT !.current_token = r.token, !.token_valid = 1],
     ret |-> r.token.type]

lexer_peek(lx) ==
    IF lx.token_valid = 0
    THEN LET r == lexer_next_token(lx) IN
         [lexer |-> [r.lexer EXCEPT !.current_token = r.token, !.token_valid = 1],
          ret |-> r.token.type]
    ELSE [lexer |-> lx, ret |-> lx.current_token.type]

\* lexer_next that also moves the cursor back to the start of the buffer
lexer_next_Rewind(lx) == [lx EXCEPT !.token_valid = 0, !.position = 0]

lexer_next(lx) == [lx EXCEPT !.token_valid = 0]

(***************************************************************************)
(* A client of the tokenizer: any sequence of lexer_peek and lexer_next    *)
(* calls on a lexer created over a source buffer.                          *)
(***************************************************************************)
InitLexer ==
    /\ \E source \in SeqsUpTo(Alphabet, MaxSrcLen) :
          lexer = lexer_create(source, Len(source))
    /\ n_next = 0
    /\ last_op = "none"
    /\ last_ret = "none"
    /\ peeks_in_row = 0
    /\ seen_eof = FALSE
    /\ alternating = TRUE
    /\ yielded = <<>>

LexerPeek ==
    /\ LET r == lexer_peek(lexer) IN
       /\ lexer' = r.lexer
       /\ last_ret' = r.ret
       /\ seen_eof' = (seen_eof \/ r.ret = "TOKEN_EOF")
       /\ yielded' = IF last_op = "peek" THEN yielded ELSE Append(yielded, r.ret)
    /\ last_op' = "peek"
    /\ peeks_in_row' = IF peeks_in_row < 2 THEN peeks_in_row + 1 ELSE 2
    /\ alternating' = (alternating /\ last_op # "peek")
    /\ UNCHANGED n_next
    /\ UNCHANGED <<bfVars, parVars>>

LexerNext ==
    /\ n_next < MaxNext
    /\ lexer' = lexer_next(lexer)
    /\ n_next' = n_next + 1
    /\ last_op' = "next"
    /\ peeks_in_row' = 0
    /\ alternating' = (alternating /\ last_op = "peek")
    /\ UNCHANGED <<last_ret, seen_eof, yielded>>
    /\ UNCHANGED <<bfVars, parVars>>

NextLexer == LexerPeek \/ LexerNext

(***************************************************************************)
(* The heap of the parser, src/bfc/src/ast.c.  A node is named by its      *)
(* index in heap.nodes and a child array by its index in heap.arrays; 0 is *)
(* NULL.  freed counts the calls of free() on the block.                   *)
(***************************************************************************)
\* longest source buffer handed to the parser
MaxParseLen == 4

NULL == 0

EmptyHeap == [nodes |-> <<>>, arrays |-> <<>>, n_alloc |-> 0, errors |-> {}]

\* the node ast_create_node initialises
NewNode(type) ==
    [type |-> type, offset |-> 0, delta |-> 0, children |-> NULL, count |-> 0,
     body |-> NULL, freed |-> 0]

ast_create_node(H, type) ==
    LET H1 == [H EXCEPT !.n_alloc = @ + 1] IN
    IF H1.n_alloc = fail_at
    THEN [heap |-> H1, ret |-> NULL]
    ELSE [heap |-> [H1 EXCEPT !.nodes = Append(@, NewNode(type))],
          ret |-> Len(H.nodes) + 1]

\* realloc(ptr, sizeof(ASTNode *) * n): a failure leaves the old block as
\* it was and returns NULL
realloc(H, ptr, n) ==
    LET H1 == [H EXCEPT !.n_alloc = @ + 1] IN
    IF H1.n_alloc = fail_at
    THEN [heap |-> H1, ret |-> NULL]
    ELSE IF ptr = NULL
    THEN [heap |-> [H1 EXCEPT !.arrays = Append(@, [elems |-> <<>>, size |-> n, freed |-> 0])],
          ret |-> Len(H.arrays) + 1]
    ELSE [heap |-> [H1 EXCEPT !.arrays[ptr].size = n], ret |-> ptr]

RECURSIVE ast_free(_, _), FreeChildren(_, _, _, _)
\* ast_free's loop over children[k..count-1]
FreeChildren(H, arr, k, count) ==
    IF k >= count \/ "null_deref" \in H.errors
    THEN H
    ELSE FreeChildren(ast_free(H, At(H.arrays[arr].elems, k)), arr, k + 1, count)

ast_free(H, node) ==
    IF node = NULL \/ "null_deref" \in H.errors
    THEN H
    ELSE IF H.nodes[node].freed > 0
    THEN [H EXCEPT !.errors = @ \cup {"use_after_free"}, !.nodes[node].freed = @ + 1]
    ELSE LET n == H.nodes[node]
             H1 == IF n.type = "AST_SEQUENCE"
                   THEN IF n.count > 0 /\ n.children = NULL
                        THEN [H EXCEPT !.errors = @ \cup {"null_deref"}]
                        ELSE LET H2 == FreeChildren(H, n.children, 0, n.count) IN
                             IF n.children = NULL
                             THEN H2
                             ELSE [H2 EXCEPT !.arrays[n.children].freed = @ + 1]
                   ELSE IF n.type = "AST_LOOP"
                   THEN ast_free(H, n.body)
                   ELSE H
         IN  IF "null_deref" \in H1.errors
             THEN H1
             ELSE [H1 EXCEPT !.nodes[node].freed = @ + 1]

(***************************************************************************)
(* The parser, src/bfc/src/parser.c.  parser_parse and parse_loop each     *)
(* have a frame [fn, pc, node, loop, stmt, token]: node is the Sequence    *)
(* being filled (root or body), loop the Loop node of parse_loop, stmt the *)
(* latest parse_statement result, token parser_parse's local.              *)
(* parse_statement runs within the frame that calls it.                    *)
(***************************************************************************)
Frame(fn) ==
    [fn |-> fn, pc |-> "begin", node |-> NULL, loop |-> NULL, stmt |-> NULL,
     token |-> "none"]

InitParser ==
    /\ \E source \in SeqsUpTo(Alphabet, MaxParseLen) :
          lexer = lexer_create(source, Len(source))
    /\ heap = EmptyHeap
    /\ fail_at = 0
    /\ frames = <<Frame("parser_parse")>>
    /\ parse_state = "running"
    /\ result = NULL

Top == frames[Len(frames)]

Running(fn, at) ==
    /\ parse_state = "running"
    /\ frames # <<>>
    /\ Top.fn = fn
    /\ Top.pc = at

\* the function of the top frame goes on, with its frame now f
Continue(f, H, lx) ==
    /\ heap' = H
    /\ lexer' = lx
    /\ IF "null_deref" \in H.errors
       THEN /\ parse_state' = "crashed"
            /\ UNCHANGED <<frames, result>>
       ELSE /\ frames' = [frames EXCEPT ![Len(frames)] = f]
            /\ UNCHANGED <<parse_state, result>>

\* the function of the top frame returns val: to the frame below, whose
\* parse_statement call it ends, or to the caller of parser_parse
Return(val, H, lx) ==
    /\ heap' = H
    /\ lexer' = lx
    /\ IF "null_deref" \in H.errors
       THEN /\ parse_state' = "crashed"
            /\ UNCHANGED <<frames, result>>
       ELSE IF Len(frames) = 1
       THEN /\ frames' = <<>>
            /\ result' = val
            /\ parse_state' = "returned"
       ELSE /\ frames' = [SubSeq(frames, 1, Len(frames) - 1)
                            EXCEPT ![Len(frames) - 1].stmt = val]
            /\ UNCHANGED <<parse_state, result>>

parFrame == <<fail_at, clientVars, bfVars>>

\* ParserParseBegin leaving token unassigned (no first lexer_peek)
ParserParseBegin_NoPeek ==
    /\ Running("parser_parse", "begin")
    /\ LET a == ast_create_node(heap, "AST_SEQUENCE") IN
       IF a.ret = NULL
       THEN Return(NULL, a.heap, lexer)
       ELSE Continue([Top EXCEPT !.node = a.ret, !.pc = "while"], a.heap, lexer)
    /\ UNCHANGED parFrame

\* parser_parse up to the loop: the root and the first lexer_peek
ParserParseBegin ==
    /\ Running("parser_parse", "begin")
    /\ LET a == ast_create_node(heap, "AST_SEQUENCE") IN
       IF a.ret = NULL
       THEN Return(NULL, a.heap, lexer)
       ELSE LET r == lexer_peek(lexer) IN
            Continue([Top EXCEPT !.node = a.ret, !.token = r.ret, !.pc = "while"],
                     a.heap, r.lexer)
    /\ UNCHANGED parFrame

\* while (token != TOKEN_EOF), and return root after it
ParserParseWhile ==
    /\ Running("parser_parse", "while")
    /\ IF Top.token # "TOKEN_EOF"
       THEN Continue([Top EXCEPT !.pc = "call"], heap, lexer)
       ELSE Return(Top.node, heap, lexer)
    /\ UNCHANGED parFrame

\* ParserParseAppend returning NULL on a failed statement without
\* releasing the root
ParserParseAppend_NoFree ==
    /\ Running("parser_parse", "after")
    /\ LET root == Top.node
           stmt == Top.stmt IN
       IF stmt = NULL
       THEN Return(NULL, heap, lexer)
       ELSE LET a == realloc(heap, heap.nodes[root].children, heap.nodes[root].count + 1)
                H1 == [a.heap EXCEPT !.nodes[root].children = a.ret] IN
            IF a.ret = NULL
            THEN Return(NULL, ast_free(ast_free(H1, root), stmt), lexer)
            ELSE LET H2 == [H1 EXCEPT !.arrays[a.ret].elems = Append(@, stmt),
                                      !.nodes[root].count = @ + 1]
                     r == lexer_peek(lexer) IN
                 Continue([Top EXCEPT !.token = r.ret, !.stmt = NULL, !.pc = "while"],
                          H2, r.lexer)
    /\ UNCHANGED parFrame

\* the loop body after parse_statement returned: the NULL test, the
\* realloc, the append and the next lexer_peek
ParserParseAppend ==
    /\ Running("parser_parse", "after")
    /\ LET root == Top.node
           stmt == Top.stmt IN
       IF stmt = NULL
       THEN Return(NULL, ast_free(heap, root), lexer)
       ELSE LET a == realloc(heap, heap.nodes[root].children, heap.nodes[root].count + 1)
                H1 == [a.heap EXCEPT !.nodes[root].children = a.ret] IN
            IF a.ret = NULL
            THEN Return(NULL, ast_free(ast_free(H1, root), stmt), lexer)
            ELSE LET H2 == [H1 EXCEPT !.arrays[a.ret].elems = Append(@, stmt),
                                      !.nodes[root].count = @ + 1]
                     r == lexer_peek(lexer) IN
                 Continue([Top EXCEPT !.token = r.ret, !.stmt = NULL, !.pc = "while"],
                          H2, r.lexer)
    /\ UNCHANGED parFrame

RECURSIVE ConsumeRun_BothWays(_, _, _)
\* ConsumeRun going on over the opposite command as well
ConsumeRun_BothWays(lx, tok, n) ==
    LET r == lexer_peek(lx)
        family == IF tok \in {"TOKEN_RIGHT", "TOKEN_LEFT"}
                  THEN {"TOKEN_RIGHT", "TOKEN_LEFT"}
                  ELSE {"TOKEN_INC", "TOKEN_DEC"} IN
    IF r.ret \in family
    THEN ConsumeRun_BothWays(lexer_next(r.lexer), tok, n + 1)
    ELSE [lexer |-> r.lexer, n |-> n]

RECURSIVE ConsumeRun(_, _, _)
\* while (lexer_peek(lexer) == tok) { lexer_next(lexer); n++; }
ConsumeRun(lx, tok, n) ==
    LET r == lexer_peek(lx) IN
    IF r.ret = tok
    THEN ConsumeRun(lexer_next(r.lexer), tok, n + 1)
    ELSE [lexer |-> r.lexer, n |-> n]

\* parse_statement's cases that fold a run: the node with its payload set
RunNode(H, lx, tok) ==
    LET c == ConsumeRun(lx, tok, 0)
        type == IF tok \in {"TOKEN_RIGHT", "TOKEN_LEFT"}
                THEN "AST_MOVE_PTR" ELSE "AST_MODIFY_CELL"
        v == IF tok \in {"TOKEN_RIGHT", "TOKEN_INC"} THEN c.n ELSE -c.n
        a == ast_create_node(H, type)
        H1 == IF a.ret = NULL THEN a.heap
              ELSE IF type = "AST_MOVE_PTR"
              THEN [a.heap EXCEPT !.nodes[a.ret].offset = v]
              ELSE [a.heap EXCEPT !.nodes[a.ret].delta = v]
    IN  [heap |-> H1, lexer |-> c.lexer, ret |-> a.ret]

\* parse_statement's cases for '.' and ',': consume one token, one node
LeafNode(H, lx, tok) ==
    LET a == ast_create_node(H, IF tok = "TOKEN_OUTPUT" THEN "AST_OUTPUT" ELSE "AST_INPUT")
    IN  [heap |-> a.heap, lexer |-> lexer_next(lx), ret |-> a.ret]

\* parse_statement, called by the top frame; on '[' it calls parse_loop,
\* whose result it hands on
ParseStatement ==
    /\ parse_state = "running"
    /\ frames # <<>>
    /\ Top.pc = "call"
    /\ LET r == lexer_peek(lexer)
           token == r.ret IN
       IF token \in {"TOKEN_RIGHT", "TOKEN_LEFT", "TOKEN_INC", "TOKEN_DEC"}
       THEN LET s == RunNode(heap, r.lexer, token) IN
            Continue([Top EXCEPT !.stmt = s.ret, !.pc = "after"], s.heap, s.lexer)
       ELSE IF token \in {"TOKEN_OUTPUT", "TOKEN_INPUT"}
       THEN LET s == LeafNode(heap, r.lexer, token) IN
            Continue([Top EXCEPT !.stmt = s.ret, !.pc = "after"], s.heap, s.lexer)
       ELSE IF token = "TOKEN_LOOP_START"
       THEN /\ frames' = Append([frames EXCEPT ![Len(frames)].pc = "after"],
                                Frame("parse_loop"))
            /\ lexer' = r.lexer
            /\ UNCHANGED <<heap, parse_state, result>>
       ELSE Continue([Top EXCEPT !.stmt = NULL, !.pc = "after"], heap, r.lexer)
    /\ UNCHANGED parFrame

\* ParseLoopBegin leaving the '[' unconsumed
ParseLoopBegin_NoNext ==
    /\ Running("parse_loop", "begin")
    /\ LET lx == lexer
           a == ast_create_node(heap, "AST_LOOP") IN
       IF a.ret = NULL
       THEN Return(NULL, a.heap, lx)
       ELSE LET b == ast_create_node(a.heap, "AST_SEQUENCE") IN
            IF b.ret = NULL
            THEN Return(NULL, ast_free(b.heap, a.ret), lx)
            ELSE Continue([Top EXCEPT !.loop = a.ret, !.node = b.ret, !.pc = "while"],
                          b.heap, lx)
    /\ UNCHANGED parFrame

\* parse_loop up to its loop: consume '[', the Loop node and its body
ParseLoopBegin ==
    /\ Running("parse_loop", "begin")
    /\ LET lx == lexer_next(lexer)
           a == ast_create_node(heap, "AST_LOOP") IN
       IF a.ret = NULL
       THEN Return(NULL, a.heap, lx)
       ELSE LET b == ast_create_node(a.heap, "AST_SEQUENCE") IN
            IF b.ret = NULL
            THEN Return(NULL, ast_free(b.heap, a.ret), lx)
            ELSE Continue([Top EXCEPT !.loop = a.ret, !.node = b.ret, !.pc = "while"],
                          b.heap, lx)
    /\ UNCHANGED parFrame

\* while (lexer_peek != TOKEN_LOOP_END && lexer_peek != TOKEN_EOF)
ParseLoopWhile ==
    /\ Running("parse_loop", "while")
    /\ LET r == lexer_peek(lexer) IN
       IF r.ret # "TOKEN_LOOP_END" /\ r.ret # "TOKEN_EOF"
       THEN Continue([Top EXCEPT !.pc = "call"], heap, r.lexer)
       ELSE Continue([Top EXCEPT !.pc = "close"], heap, r.lexer)
    /\ UNCHANGED parFrame

\* ParseLoopAppend storing the statement in front of the earlier ones
ParseLoopAppend_Prepend ==
    /\ Running("parse_loop", "after")
    /\ LET loop == Top.loop
           body == Top.node
           stmt == Top.stmt IN
       IF stmt = NULL
       THEN Return(NULL, ast_free(ast_free(heap, loop), body), lexer)
       ELSE LET a == realloc(heap, heap.nodes[body].children, heap.nodes[body].count + 1)
                H1 == [a.heap EXCEPT !.nodes[body].children = a.ret] IN
            IF a.ret = NULL
            THEN Return(NULL, ast_free(ast_free(ast_free(H1, loop), body), stmt), lexer)
            ELSE LET H2 == [H1 EXCEPT !.arrays[a.ret].elems = <<stmt>> \o @,
                                      !.nodes[body].count = @ + 1] IN
                 Continue([Top EXCEPT !.stmt = NULL, !.pc = "while"], H2, lexer)
    /\ UNCHANGED parFrame

\* the loop body after parse_statement returned
ParseLoopAppend ==
    /\ Running("parse_loop", "after")
    /\ LET loop == Top.loop
           body == Top.node
           stmt == Top.stmt IN
       IF stmt = NULL
       THEN Return(NULL, ast_free(ast_free(heap, loop), body), lexer)
       ELSE LET a == realloc(heap, heap.nodes[body].children, heap.nodes[body].count + 1)
                H1 == [a.heap EXCEPT !.nodes[body].children = a.ret] IN
            IF a.ret = NULL
            THEN Return(NULL, ast_free(ast_free(ast_free(H1, loop), body), stmt), lexer)
            ELSE LET H2 == [H1 EXCEPT !.arrays[a.ret].elems = Append(@, stmt),
                                      !.nodes[body].count = @ + 1] IN
                 Continue([Top EXCEPT !.stmt = NULL, !.pc = "while"], H2, lexer)
    /\ UNCHANGED parFrame

\* ParseLoopClose returning the Loop whether or not a ']' closes it
ParseLoopClose_AcceptEof ==
    /\ Running("parse_loop", "close")
    /\ LET r == lexer_peek(lexer) IN
       Return(Top.loop, [heap EXCEPT !.nodes[Top.loop].body = Top.node],
              lexer_next(r.lexer))
    /\ UNCHANGED parFrame

\* ParseLoopClose returning the Loop without storing its body
ParseLoopClose_NoBody ==
    /\ Running("parse_loop", "close")
    /\ LET r == lexer_peek(lexer) IN
       IF r.ret = "TOKEN_LOOP_END"
       THEN Return(Top.loop, heap, lexer_next(r.lexer))
       ELSE Return(NULL, ast_free(ast_free(heap, Top.loop), Top.node), r.lexer)
    /\ UNCHANGED parFrame

\* after the loop: consume the ']' and return the Loop, or fail on an
\* unmatched '['
ParseLoopClose ==
    /\ Running("parse_loop", "close")
    /\ LET r == lexer_peek(lexer) IN
       IF r.ret = "TOKEN_LOOP_END"
       THEN Return(Top.loop, [heap EXCEPT !.nodes[Top.loop].body = Top.node],
                   lexer_next(r.lexer))
       ELSE Return(NULL, ast_free(ast_free(heap, Top.loop), Top.node), r.lexer)
    /\ UNCHANGED parFrame

NextParser ==
    \/ ParserParseBegin \/ ParserParseWhile \/ ParserParseAppend
    \/ ParseStatement
    \/ ParseLoopBegin \/ ParseLoopWhile \/ ParseLoopAppend \/ ParseLoopClose

(***************************************************************************)
(* parser_parse when one allocation request fails: malloc or realloc       *)
(* returns NULL at request number fail_at.                                 *)
(***************************************************************************)
\* longest source buffer parsed with a failing allocation
MaxOomLen == 3
\* the latest allocation request that may fail
MaxFailAt == 7

InitParserOOM ==
    /\ \E source \in SeqsUpTo(Alphabet, MaxOomLen) :
          lexer = lexer_create(source, Len(source))
    /\ heap = EmptyHeap
    /\ fail_at \in 1..MaxFailAt
    /\ frames = <<Frame("parser_parse")>>
    /\ parse_state = "running"
    /\ result = NULL

(***************************************************************************)
(* The specifications.  Each runs one program of the repository; the       *)
(* variables of the others stay at rest.                                   *)
(***************************************************************************)
IdleClient ==
    /\ n_next = 0
    /\ last_op = "none"
    /\ last_ret = "none"
    /\ peeks_in_row = 0
    /\ seen_eof = FALSE
    /\ alternating = TRUE
    /\ yielded = <<>>

IdleParser ==
    /\ heap = EmptyHeap
    /\ fail_at = 0
    /\ frames = <<>>
    /\ parse_state = "idle"
    /\ result = NULL

IdleFrontEnd ==
    /\ lexer = lexer_create(<<>>, 0)
    /\ IdleClient
    /\ IdleParser

IdleInterpreter ==
    /\ program = <<>>
    /\ program_length = 0
    /\ main_pc = "idle"
    /\ i = 0
    /\ stack = <<>>
    /\ unmatched_close = 0
    /\ jump_table = <<>>
    /\ unmatched = 0
    /\ err_msgs = <<>>
    /\ memory = <<>>
    /\ cell = 0
    /\ pc = 0
    /\ output = <<>>
    /\ in_count = 0
    /\ at_eof = FALSE
    /\ exec_entered = FALSE
    /\ exit_status = -2
    /\ dec_count = -1
    /\ rd = ReadIdle

\* parser_parse on a fresh lexer, one allocation failing
InitSpecParserOOM == InitParserOOM /\ IdleClient /\ IdleInterpreter

SpecParserOOM == InitSpecParserOOM /\ [][NextParser]_vars

\* main before read_program: nothing built or run yet
IdleMain ==
    /\ program = <<>>
    /\ program_length = 0
    /\ main_pc = "idle"
    /\ i = 0
    /\ stack = <<>>
    /\ unmatched_close = 0
    /\ jump_table = <<>>
    /\ unmatched = 0
    /\ err_msgs = <<>>
    /\ memory = <<>>
    /\ cell = 0
    /\ pc = 0
    /\ output = <<>>
    /\ in_count = 0
    /\ at_eof = FALSE
    /\ exec_entered = FALSE
    /\ exit_status = -2
    /\ dec_count = -1

\* read_program on one file with one cap
InitSpecRead == InitRead /\ IdleMain /\ IdleFrontEnd

SpecRead == InitSpecRead /\ [][NextRead]_vars

\* the interpreter on the idiom programs; main is a sequential program, so
\* it takes its next step whenever it has one
InitSpecIdioms == InitIdioms /\ IdleFrontEnd

SpecIdioms == InitSpecIdioms /\ [][NextIdioms]_vars /\ WF_vars(NextIdioms)

\* both front ends on one source: parser_parse (bfc) on a fresh lexer over
\* the bytes that build_jump_table (bf) scans
InitSpecFrontEnds ==
    /\ InitBf
    /\ lexer = lexer_create(program, program_length)
    /\ heap = EmptyHeap
    /\ fail_at = 0
    /\ frames = <<Frame("parser_parse")>>
    /\ parse_state = "running"
    /\ result = NULL
    /\ IdleClient

\* the two programs share nothing; the parse is run first, then the scan
RunParser == parse_state = "running" /\ NextParser

RunBuild == parse_state # "running" /\ (BuildStep \/ BuildReturn)

NextFrontEnds == RunParser \/ RunBuild

SpecFrontEnds == InitSpecFrontEnds /\ [][NextFrontEnds]_vars

\* the interpreter on programs of unmatched brackets
InitSpecUnmatched == InitUnmatched /\ IdleFrontEnd

SpecUnmatched == InitSpecUnmatched /\ [][NextUnmatched]_vars

\* the interpreter, bf
InitSpecBf == InitBf /\ IdleFrontEnd

SpecBf == InitSpecBf /\ [][NextBf]_vars

\* the interpreter with the stores that leave memory[] landing in main's
\* other arrays as well
SpecBfAliased == InitSpecBf /\ [][NextBfAliased]_vars

\* a client calling the tokenizer
InitSpecLexer == InitLexer /\ IdleParser /\ IdleInterpreter

SpecLexer == InitSpecLexer /\ [][NextLexer]_vars

\* parser_parse on a fresh lexer, every allocation succeeding
InitSpecParser == InitParser /\ IdleClient /\ IdleInterpreter

SpecParser == InitSpecParser /\ [][NextParser]_vars

(***************************************************************************)
(* Bracket structure of a byte sequence, stated without a stack: these are *)
(* the terms the properties of the resolver are written in.                *)
(***************************************************************************)
BracketDelta(c) == IF c = "[" THEN 1 ELSE IF c = "]" THEN -1 ELSE 0

RECURSIVE NetDepth(_, _, _)
\* the number of '[' minus the number of ']' among s[a..b] (0-based, inclusive)
NetDepth(s, a, b) ==
    IF a > b THEN 0 ELSE NetDepth(s, a, b - 1) + BracketDelta(At(s, b))

\* s[a..b] is bracket-balanced
BalancedBetween(s, a, b) ==
    /\ NetDepth(s, a, b) = 0
    /\ \A k \in a..b : NetDepth(s, a, k) >= 0

\* the ']' at q is the properly nested partner of the '[' at p
Partner(s, p, q) ==
    /\ p < q
    /\ At(s, p) = "["
    /\ At(s, q) = "]"
    /\ BalancedBetween(s, p + 1, q - 1)

Positions(s) == 0..(Len(s) - 1)

\* the ']' with no earlier unclosed '['
StrayCloses(s) ==
    {q \in Positions(s) : At(s, q) = "]" /\ ~\E p \in Positions(s) : Partner(s, p, q)}

\* the '[' never closed
OpenNeverClosed(s) ==
    {p \in Positions(s) : At(s, p) = "[" /\ ~\E q \in Positions(s) : Partner(s, p, q)}

(***************************************************************************)
(* Properties of the interpreter (SpecBf).                                 *)
(***************************************************************************)

\* C1: once build_jump_table has run, every '[' at p whose properly nested
\* partner ']' is at q has jump_table[p] = q and jump_table[q] = p.
C1_JumpTablePairs ==
    main_pc # "build" =>
        \A p, q \in Positions(program) :
            Partner(program, p, q) => jump_table[p] = q /\ jump_table[q] = p

\* a finished scan of a program with a pair nested inside another pair
C1_Witness ==
    /\ main_pc = "built"
    /\ \E p, q, r, t \in Positions(program) :
          /\ p < r /\ t < q
          /\ Partner(program, p, q)
          /\ Partner(program, r, t)

\* C2: the value build_jump_table returns is the number of ']' with no
\* earlier unclosed '[' plus the number of '[' never closed; it is 0 exactly
\* for bracket-balanced programs, 1 for "]" and 1 for "[".
C2_UnmatchedTotal ==
    main_pc # "build" =>
        /\ unmatched = Cardinality(StrayCloses(program))
                       + Cardinality(OpenNeverClosed(program))
        /\ (unmatched = 0) <=> BalancedBetween(program, 0, program_length - 1)
        /\ program = <<"]">> => unmatched = 1
        /\ program = <<"[">> => unmatched = 1

\* a finished scan that counted both a stray ']' and an unclosed '['
C2_Witness ==
    /\ main_pc = "built"
    /\ StrayCloses(program) # {}
    /\ OpenNeverClosed(program) # {}
    /\ unmatched >= 2

\* C3: execute_program is not entered before build_jump_table has returned,
\* and never when it returned a non-zero total: then the tape is untouched,
\* nothing is written and nothing is read from stdin.
C3_NoExecutionOnUnmatched ==
    LET untouched == /\ ~exec_entered
                     /\ main_pc # "exec"
                     /\ memory = <<>>
                     /\ output = <<>>
                     /\ in_count = 0
                     /\ ~at_eof
                     /\ pc = 0
    IN  /\ main_pc \in {"build", "built"} => untouched
        /\ exec_entered => i = program_length /\ unmatched = 0
        /\ (main_pc # "build" /\ unmatched # 0) => untouched

\* main has returned the unmatched total of a program that holds commands
\* with an effect
C3_Witness ==
    /\ main_pc = "done"
    /\ unmatched # 0
    /\ exit_status = unmatched
    /\ \E k \in Positions(program) : At(program, k) \in {"+", ".", ","}

(***************************************************************************)
(* The token stream of a source, stated without a cursor: the command      *)
(* bytes in order, each as the token kind lexer.h names for it.            *)
(***************************************************************************)
KindOfCommand(ch) ==
    CASE ch = ">" -> "TOKEN_RIGHT"
      [] ch = "<" -> "TOKEN_LEFT"
      [] ch = "+" -> "TOKEN_INC"
      [] ch = "-" -> "TOKEN_DEC"
      [] ch = "." -> "TOKEN_OUTPUT"
      [] ch = "," -> "TOKEN_INPUT"
      [] ch = "[" -> "TOKEN_LOOP_START"
      [] ch = "]" -> "TOKEN_LOOP_END"

IsCommand(ch) == ch \in Commands

CommandsOf(src) == SelectSeq(src, IsCommand)

\* the kind of the k-th (0-based) command of src, TOKEN_EOF past the last
KindAt(src, k) ==
    IF k < Len(CommandsOf(src))
    THEN KindOfCommand(At(CommandsOf(src), k))
    ELSE "TOKEN_EOF"

\* the whole stream: every command's kind, then TOKEN_EOF
TokenStream(src) ==
    [k \in 1..(Len(CommandsOf(src)) + 1) |-> KindAt(src, k - 1)]

(***************************************************************************)
(* Properties of the tokenizer (SpecLexer).                                *)
(***************************************************************************)

\* C4: alternating lexer_peek and lexer_next yields the kinds of the
\* source's command bytes in source order, then TOKEN_EOF: nothing is
\* skipped, nothing is duplicated, every other byte is discarded.
C4_AlternationYieldsCommands ==
    alternating =>
        /\ \A j \in 1..Len(yielded) : yielded[j] = KindAt(lexer.source, j - 1)
        /\ (last_op = "peek" /\ last_ret = "TOKEN_EOF"
              /\ ~\E j \in 1..(Len(yielded) - 1) : yielded[j] = "TOKEN_EOF")
           => yielded = TokenStream(lexer.source)

\* an alternation that reached TOKEN_EOF over a source holding commands on
\* both sides of a discarded byte
C4_Witness ==
    /\ alternating
    /\ last_op = "peek"
    /\ last_ret = "TOKEN_EOF"
    /\ Len(yielded) = 3
    /\ Len(lexer.source) = 3
    /\ ~IsCommand(At(lexer.source, 1))

\* C5: lexer_peek does not advance: a lexer_peek that follows a lexer_peek
\* returns the same kind and leaves the lexer as it was; and once a
\* lexer_peek has returned TOKEN_EOF every later one returns TOKEN_EOF,
\* whatever calls are made in between.
C5_PeekDoesNotAdvance ==
    [][ /\ (last_op = "peek" /\ last_op' = "peek")
            => (last_ret' = last_ret /\ lexer' = lexer)
        /\ (seen_eof /\ last_op' = "peek") => last_ret' = "TOKEN_EOF" ]_vars

\* a second lexer_peek in a row, made after TOKEN_EOF was seen and
\* lexer_next was called again
C5_Witness ==
    /\ peeks_in_row = 2
    /\ seen_eof
    /\ n_next >= 2
    /\ last_ret = "TOKEN_EOF"
    /\ Len(CommandsOf(lexer.source)) >= 1

\* C6: a lexer_peek made after k calls of lexer_next returns the kind of
\* the k-th (0-based) command byte of the source, TOKEN_EOF when the source
\* has at most k, for any sequence of calls.
C6_PeekAfterKNext ==
    last_op = "peek" => last_ret = KindAt(lexer.source, n_next)

(***************************************************************************)
(* The AST read back from the heap, and the folding of a command sequence  *)
(* stated on the sequence itself.  An item is a node kind with its payload *)
(* (0 where the kind has none); a Loop is "LoopOpen", its body's items and *)
(* "LoopClose".                                                            *)
(***************************************************************************)
Item(kind, v) == [kind |-> kind, v |-> v]

RECURSIVE Flatten(_, _), FlattenChildren(_, _, _, _)
FlattenChildren(H, arr, k, count) ==
    IF k >= count
    THEN <<>>
    ELSE Flatten(H, At(H.arrays[arr].elems, k)) \o FlattenChildren(H, arr, k + 1, count)

Flatten(H, node) ==
    IF node = NULL
    THEN <<Item("NULL", 0)>>
    ELSE LET n == H.nodes[node] IN
         CASE n.type = "AST_SEQUENCE" -> FlattenChildren(H, n.children, 0, n.count)
           [] n.type = "AST_LOOP" ->
                <<Item("LoopOpen", 0)>> \o Flatten(H, n.body) \o <<Item("LoopClose", 0)>>
           [] n.type = "AST_MOVE_PTR" -> <<Item("MovePointer", n.offset)>>
           [] n.type = "AST_MODIFY_CELL" -> <<Item("ModifyCell", n.delta)>>
           [] n.type = "AST_OUTPUT" -> <<Item("Output", 0)>>
           [] n.type = "AST_INPUT" -> <<Item("Input", 0)>>

RECURSIVE RunLength(_, _)
\* the length of the maximal run of cmds[k] that starts at k (1-based)
RunLength(cmds, k) ==
    IF k < Len(cmds) /\ cmds[k + 1] = cmds[k]
    THEN 1 + RunLength(cmds, k + 1)
    ELSE 1

RECURSIVE Folded(_, _)
\* cmds[k..] with every maximal run of one of > < + - as one item
Folded(cmds, k) ==
    IF k > Len(cmds)
    THEN <<>>
    ELSE LET c == cmds[k]
             n == RunLength(cmds, k) IN
         CASE c = ">" -> <<Item("MovePointer", n)>> \o Folded(cmds, k + n)
           [] c = "<" -> <<Item("MovePointer", -n)>> \o Folded(cmds, k + n)
           [] c = "+" -> <<Item("ModifyCell", n)>> \o Folded(cmds, k + n)
           [] c = "-" -> <<Item("ModifyCell", -n)>> \o Folded(cmds, k + n)
           [] c = "." -> <<Item("Output", 0)>> \o Folded(cmds, k + 1)
           [] c = "," -> <<Item("Input", 0)>> \o Folded(cmds, k + 1)
           [] c = "[" -> <<Item("LoopOpen", 0)>> \o Folded(cmds, k + 1)
           [] c = "]" -> <<Item("LoopClose", 0)>> \o Folded(cmds, k + 1)

\* the payload of a MovePointer or ModifyCell node
Payload(n) == IF n.type = "AST_MOVE_PTR" THEN n.offset ELSE n.delta

SameSign(a, b) == (a > 0 /\ b > 0) \/ (a < 0 /\ b < 0) \/ (a = 0 /\ b = 0)

\* no Sequence holds two adjacent children of one run type with one sign
NoAdjacentSameRun(H) ==
    \A s \in 1..Len(H.nodes) :
        (H.nodes[s].type = "AST_SEQUENCE" /\ H.nodes[s].count > 0) =>
            \A k \in 1..(H.nodes[s].count - 1) :
                LET a == H.nodes[H.arrays[H.nodes[s].children].elems[k]]
                    b == H.nodes[H.arrays[H.nodes[s].children].elems[k + 1]] IN
                ~ /\ a.type \in {"AST_MOVE_PTR", "AST_MODIFY_CELL"}
                  /\ a.type = b.type
                  /\ SameSign(Payload(a), Payload(b))

\* every node and every child array handed out was freed exactly once,
\* and no freed or null block was touched
AllFreedOnce(H) ==
    /\ \A n \in 1..Len(H.nodes) : H.nodes[n].freed = 1
    /\ \A a \in 1..Len(H.arrays) : H.arrays[a].freed = 1
    /\ H.errors = {}

Accepted == parse_state = "returned" /\ result # NULL

\* some function of the parser is at a point it goes on from: the guards
\* of the parser's actions
CanStep ==
    /\ frames # <<>>
    /\ \/ Top.fn = "parser_parse" /\ Top.pc \in {"begin", "while", "call", "after"}
       \/ Top.fn = "parse_loop" /\ Top.pc \in {"begin", "while", "call", "after", "close"}

(***************************************************************************)
(* Properties of the parser (SpecParser).                                  *)
(***************************************************************************)

\* C7: on a source of non-command bytes only (the empty source included)
\* the first lexer_peek returns TOKEN_EOF and parser_parse returns a
\* non-null root Sequence with zero children.
C7_EmptyProgram ==
    CommandsOf(lexer.source) = <<>> =>
        /\ parse_state # "crashed"
        /\ parse_state = "running" =>
              /\ CanStep
              /\ frames[1].pc # "begin" => frames[1].token = "TOKEN_EOF"
        /\ parse_state = "returned" =>
              /\ result # NULL
              /\ heap.nodes[result].type = "AST_SEQUENCE"
              /\ heap.nodes[result].count = 0
              /\ heap.nodes[result].freed = 0
              /\ Len(heap.nodes) = 1

\* parser_parse has returned on a non-empty source without a command
C7_Witness ==
    /\ parse_state = "returned"
    /\ Len(lexer.source) >= 2
    /\ CommandsOf(lexer.source) = <<>>
    /\ result # NULL

\* C8: in an accepted source every maximal run of n same-kind tokens among
\* > < + - (non-command bytes do not break a run) is exactly one node,
\* MovePointer(+n), MovePointer(-n), ModifyCell(+n) or ModifyCell(-n);
\* opposite directions are not folded together (">><" is MovePointer(+2),
\* MovePointer(-1)) and no two adjacent siblings are one type with one sign.
C8_RunsFolded ==
    Accepted =>
        /\ Flatten(heap, result) = Folded(CommandsOf(lexer.source), 1)
        /\ NoAdjacentSameRun(heap)
        /\ CommandsOf(lexer.source) = <<">", ">", "<">> =>
              Flatten(heap, result) = <<Item("MovePointer", 2), Item("MovePointer", -1)>>

\* an accepted source in which a discarded byte lies inside a run that is
\* followed by the opposite command
C8_Witness ==
    /\ Accepted
    /\ Len(lexer.source) >= 3
    /\ ~IsCommand(At(lexer.source, 1))
    /\ \E k \in 1..(Len(Flatten(heap, result)) - 1) :
          /\ Flatten(heap, result)[k].kind = Flatten(heap, result)[k + 1].kind
          /\ Flatten(heap, result)[k].v >= 2
          /\ Flatten(heap, result)[k + 1].v < 0

\* C9: on a source in which some '[' has no matching ']', at any depth,
\* parser_parse returns NULL, and by then every node allocated during the
\* parse has been freed exactly once.
C9_UnmatchedOpenFails ==
    OpenNeverClosed(lexer.source) # {} =>
        /\ parse_state # "crashed"
        /\ parse_state = "running" => CanStep
        /\ parse_state = "returned" =>
              /\ result = NULL
              /\ Len(heap.nodes) >= 1
              /\ AllFreedOnce(heap)

\* parser_parse has failed on an unclosed '[' nested in another unclosed
\* '[', after a statement was parsed into a body
C9_Witness ==
    /\ parse_state = "returned"
    /\ result = NULL
    /\ Cardinality(OpenNeverClosed(lexer.source)) >= 2
    /\ StrayCloses(lexer.source) = {}
    /\ Len(heap.nodes) >= 6
    /\ Len(heap.arrays) >= 1

\* C10: on a source with a ']' that no earlier '[' opens, parser_parse
\* returns NULL without crashing, the root and every statement parsed
\* before the stray ']' released; the caller gets no AST.
C10_StrayCloseFails ==
    StrayCloses(lexer.source) # {} =>
        /\ parse_state # "crashed"
        /\ parse_state = "running" => CanStep
        /\ parse_state = "returned" =>
              /\ result = NULL
              /\ Len(heap.nodes) >= 1
              /\ AllFreedOnce(heap)

\* parser_parse has failed on a stray ']' that follows a complete loop and
\* another statement
C10_Witness ==
    /\ parse_state = "returned"
    /\ result = NULL
    /\ StrayCloses(lexer.source) # {}
    /\ OpenNeverClosed(lexer.source) = {}
    /\ \E n \in 1..Len(heap.nodes) : heap.nodes[n].type = "AST_LOOP"
    /\ Len(heap.arrays) >= 1
    /\ heap.arrays[1].size >= 2

(***************************************************************************)
(* Properties of the parser under allocation failure (SpecParserOOM) and   *)
(* of the tree it returns (SpecParser).                                    *)
(***************************************************************************)
AllocationFailed == fail_at > 0 /\ heap.n_alloc >= fail_at

\* C11: if one allocation fails at any point of parser_parse, the parse
\* returns NULL and every node and child array allocated so far has been
\* freed exactly once, with no access through a null or dangling child
\* array.
C11_AllocFailureReleasesAll ==
    AllocationFailed =>
        /\ parse_state # "crashed"
        /\ parse_state = "returned" =>
              /\ result = NULL
              /\ AllFreedOnce(heap)

\* the nodes that hold node c as a child: once for every slot of a child
\* array and every Loop body that names it
ParentSlots(H, c) ==
    {<<s, k>> \in (1..Len(H.nodes)) \X (1..Len(H.nodes)) :
        /\ H.nodes[s].type = "AST_SEQUENCE"
        /\ k <= H.nodes[s].count
        /\ H.arrays[H.nodes[s].children].elems[k] = c}
    \cup
    {<<l, 0>> : l \in {l \in 1..Len(H.nodes) :
                         H.nodes[l].type = "AST_LOOP" /\ H.nodes[l].body = c}}

IsSequence(H, n) == n # NULL /\ H.nodes[n].type = "AST_SEQUENCE"

\* C12: every AST parser_parse returns is a tree: the root and every Loop
\* body is a Sequence, never null; every node but the root is the child of
\* exactly one parent (the root of none, and a parent is older than its
\* child, so there is no cycle); every MovePointer and ModifyCell node
\* carries a non-zero payload.
C12_ReturnedAstIsTree ==
    Accepted =>
        /\ IsSequence(heap, result)
        /\ ParentSlots(heap, result) = {}
        /\ \A n \in 1..Len(heap.nodes) :
              /\ heap.nodes[n].freed = 0
              /\ n # result => Cardinality(ParentSlots(heap, n)) = 1
              /\ \A ps \in ParentSlots(heap, n) : ps[1] < n
              /\ heap.nodes[n].type = "AST_LOOP" => IsSequence(heap, heap.nodes[n].body)
              /\ heap.nodes[n].type = "AST_MOVE_PTR" => heap.nodes[n].offset # 0
              /\ heap.nodes[n].type = "AST_MODIFY_CELL" => heap.nodes[n].delta # 0
              /\ heap.nodes[n].type = "AST_SEQUENCE" =>
                    /\ heap.nodes[n].count >= 0
                    /\ heap.nodes[n].count > 0 =>
                          /\ heap.nodes[n].children # NULL
                          /\ Len(heap.arrays[heap.nodes[n].children].elems)
                                = heap.nodes[n].count

\* an accepted source with a Loop whose body is empty inside a Loop
C12_Witness ==
    /\ Accepted
    /\ \E a, b \in 1..Len(heap.nodes) :
          /\ heap.nodes[a].type = "AST_LOOP"
          /\ heap.nodes[b].type = "AST_LOOP"
          /\ <<heap.nodes[a].body, 1>> \in ParentSlots(heap, b)
          /\ heap.nodes[heap.nodes[b].body].count = 0

\* the commands one item stands for
UnfoldItem(it) ==
    CASE it.kind = "MovePointer" ->
            IF it.v >= 0 THEN Repeat(">", it.v) ELSE Repeat("<", -it.v)
      [] it.kind = "ModifyCell" ->
            IF it.v >= 0 THEN Repeat("+", it.v) ELSE Repeat("-", -it.v)
      [] it.kind = "Output" -> <<".">>
      [] it.kind = "Input" -> <<",">>
      [] it.kind = "LoopOpen" -> <<"[">>
      [] it.kind = "LoopClose" -> <<"]">>
      [] OTHER -> <<"NULL">>

RECURSIVE Unfold(_)
Unfold(items) ==
    IF items = <<>> THEN <<>> ELSE UnfoldItem(Head(items)) \o Unfold(Tail(items))

\* C13: unfolding the returned AST in child order gives back exactly the
\* source's command bytes: nothing reordered, dropped or duplicated.
C13_UnfoldGivesCommands ==
    Accepted => Unfold(Flatten(heap, result)) = CommandsOf(lexer.source)

\* an accepted source with two statements of different kinds inside a loop
C13_Witness ==
    /\ Accepted
    /\ \E n \in 1..Len(heap.nodes) :
          /\ heap.nodes[n].type = "AST_LOOP"
          /\ heap.nodes[heap.nodes[n].body].count = 2
    /\ Len(CommandsOf(lexer.source)) = 4

(***************************************************************************)
(* Properties of execute_program's commands (SpecBf) and of the idiom      *)
(* programs (SpecIdioms).                                                  *)
(***************************************************************************)
\* the command cmd at pc is executed in this step, on a cell of the tape
Executes(cmd) == Fetching(cmd) /\ InTape(cell) /\ pc' = pc + 1

\* no cell but the current one changes in this step
OtherCellsSame ==
    \A k \in ((DOMAIN memory) \cup (DOMAIN memory')) \ {cell} :
        Load(memory', k) = Load(memory, k)

CellsAreBytes == \A k \in DOMAIN memory : memory[k] \in 0..(UCHAR_RANGE - 1)

IncDecStep ==
    /\ Executes("+") =>
          /\ Load(memory', cell) =
                (IF Load(memory, cell) = 255 THEN 0 ELSE Load(memory, cell) + 1)
          /\ OtherCellsSame
          /\ cell' = cell
    /\ Executes("-") =>
          /\ Load(memory', cell) =
                (IF Load(memory, cell) = 0 THEN 255 ELSE Load(memory, cell) - 1)
          /\ OtherCellsSame
          /\ cell' = cell

CountOf(c, n) == Cardinality({k \in 1..n : program[k] = c})

\* while only '+' and '-' have been executed, cell 0 holds their balance
RunFromZero ==
    (main_pc = "exec" /\ \A k \in 1..pc : program[k] \in {"+", "-"}) =>
        /\ Load(memory, 0) = (0 + CountOf("+", pc) - CountOf("-", pc)) % 256
        /\ DOMAIN memory \subseteq {0}
        /\ cell = 0

\* C14: every cell always holds a value in 0..255; '+' and '-' change the
\* current cell by one modulo 256 ('+' on 255 gives 0, '-' on 0 gives 255)
\* and leave every other cell and the cursor alone; after a '+' and b '-'
\* on the cell its value is (old + a - b) mod 256.
C14_CellsModulo256 ==
    [][/\ CellsAreBytes /\ CellsAreBytes'
       /\ RunFromZero /\ RunFromZero'
       /\ IncDecStep]_vars

\* "-+" executed: the '-' took cell 0 from 0 to 255 and the '+' took it
\* from 255 back to 0
C14_Witness ==
    /\ main_pc = "exec"
    /\ pc = 2
    /\ SubSeq(program, 1, 2) = <<"-", "+">>
    /\ Load(memory, 0) = 0

\* the idiom programs never meet ',' or another byte and never leave the
\* tape, so main takes no step outside NextIdioms
IdiomStepsCovered ==
    (main_pc = "exec" /\ pc < program_length) =>
        /\ At(program, pc) \in Commands \ {","}
        /\ InTape(cell)
        /\ cell < MaxCursor
        /\ cell > -MaxCursor
        /\ Len(output) < MaxOutput

Started == main_pc = "build" /\ i = 0

OutputStep ==
    Executes(".") =>
        /\ output' = Append(output, Load(memory, cell))
        /\ memory' = memory
        /\ cell' = cell

\* n '+' and then '.', n = Len(program) - 1
IsPlusThenDot ==
    /\ Len(program) >= 1
    /\ program[Len(program)] = "."
    /\ \A k \in 1..(Len(program) - 1) : program[k] = "+"

PlusThenDotOutput ==
    (main_pc = "done" /\ IsPlusThenDot) =>
        /\ output = <<(Len(program) - 1) % 256>>
        /\ exit_status = 0

\* C15: each executed '.' appends exactly one byte, the current cell's
\* value, to the output and leaves tape and cursor unchanged; n '+' followed
\* by '.' on a zero tape runs to its end and has output the single byte
\* n mod 256.
C15_OutputOneByte ==
    /\ [][OutputStep /\ PlusThenDotOutput' /\ IdiomStepsCovered]_vars
    /\ (Started /\ IsPlusThenDot) ~> (main_pc = "done")

\* 257 '+' and '.' have run: the output is the one byte 1
C15_Witness ==
    /\ main_pc = "done"
    /\ IsPlusThenDot
    /\ Len(program) = 258
    /\ output = <<1>>

\* "+>", v '+' and "[-]", v = Len(program) - 5: "[-]" is reached with the
\* cursor on cell 1 holding v, and cell 0 holding 1
IsClearProgram ==
    /\ Len(program) >= 5
    /\ SubSeq(program, 1, 2) = <<"+", ">">>
    /\ SubSeq(program, Len(program) - 2, Len(program)) = <<"[", "-", "]">>
    /\ \A k \in 3..(Len(program) - 3) : program[k] = "+"

ClearReached ==
    (main_pc = "exec" /\ pc = Len(program) - 3 /\ dec_count = 0 /\ IsClearProgram) =>
        /\ cell = 1
        /\ Load(memory, 1) = Len(program) - 5
        /\ Load(memory, 0) = 1

ClearDone ==
    (main_pc = "done" /\ IsClearProgram) =>
        /\ exit_status = 0
        /\ Load(memory, 1) = 0
        /\ Load(memory, 0) = 1
        /\ DOMAIN memory = {0}
        /\ cell = 1
        /\ dec_count = Len(program) - 5

\* C16: for every value v in 0..255 of the current cell, "[-]" terminates
\* with that cell 0 and every other cell and the cursor unchanged; '-' is
\* executed exactly v times (never when v = 0).
C16_ClearLoop ==
    /\ [][ClearReached /\ ClearDone' /\ IdiomStepsCovered']_vars
    /\ (Started /\ IsClearProgram) ~> (main_pc = "done")

\* "[-]" has cleared a cell that held 255, with 255 executions of '-'
C16_Witness ==
    /\ main_pc = "done"
    /\ IsClearProgram
    /\ Len(program) = 260
    /\ dec_count = 255
    /\ Load(memory, 1) = 0

\* n '+' and then "[>+<-]", n = Len(program) - 6
IsMoveProgram ==
    /\ Len(program) >= 6
    /\ SubSeq(program, Len(program) - 5, Len(program)) = <<"[", ">", "+", "<", "-", "]">>
    /\ \A k \in 1..(Len(program) - 6) : program[k] = "+"

MoveDone ==
    (main_pc = "done" /\ IsMoveProgram) =>
        /\ exit_status = 0
        /\ Load(memory, 0) = 0
        /\ Load(memory, 1) = Len(program) - 6
        /\ cell = 0
        /\ DOMAIN memory \subseteq {1}

\* C17: for every n in 0..255, n '+' followed by "[>+<-]" on a zeroed tape
\* terminates with cell 0 at 0, cell 1 at n, the cursor on cell 0 and every
\* other cell 0.
C17_MoveLoop ==
    /\ [][MoveDone' /\ IdiomStepsCovered /\ IdiomStepsCovered']_vars
    /\ (Started /\ IsMoveProgram) ~> (main_pc = "done")

\* the idiom has moved 255 from cell 0 to cell 1
C17_Witness ==
    /\ main_pc = "done"
    /\ IsMoveProgram
    /\ Load(memory, 1) = 255
    /\ Load(memory, 0) = 0
    /\ cell = 0

\* ',' executed with a byte available: getchar consumed one byte
InputByteStep ==
    (Executes(",") /\ in_count' = in_count + 1) =>
        /\ Load(memory', cell) \in InputBytes
        /\ ~at_eof'
        /\ OtherCellsSame
        /\ cell' = cell

\* ',' executed at end-of-input: getchar consumed nothing
AtEndOfInput == Executes(",") /\ in_count' = in_count

\* C18 as stated: ',' with a byte b available sets the current cell to b
\* and changes no other cell and not the cursor; ',' at end-of-input leaves
\* the current cell's value unchanged.
C18_InputEofKeepsCell ==
    [][/\ InputByteStep
       /\ AtEndOfInput => Load(memory', cell) = Load(memory, cell)]_vars

\* C18, amended: ',' with a byte b available sets the current cell to b and
\* changes no other cell and not the cursor; ',' at end-of-input stores
\* (unsigned char)EOF, 255, in the current cell, whatever it held, and
\* changes no other cell and not the cursor.
C18_InputEofStoresSentinel ==
    [][/\ InputByteStep
       /\ AtEndOfInput =>
             /\ Load(memory', cell) = 255
             /\ at_eof'
             /\ OtherCellsSame
             /\ cell' = cell]_vars

\* "," executed on the zeroed tape with stdin empty: cell 0 holds 255
C18_Witness ==
    /\ main_pc = "exec"
    /\ pc = 1
    /\ At(program, 0) = ","
    /\ at_eof
    /\ in_count = 0
    /\ Load(memory, 0) = 255

(***************************************************************************)
(* Properties of read_program (SpecRead).                                  *)
(***************************************************************************)
\* C19: read_program returns the file's length, with all of its bytes
\* stored, when the file has at most max_size bytes (exactly max_size
\* included), and -1 when it has more; a non-negative return value is never
\* the length of a truncated program.
C19_ReadProgramCap ==
    (rd.pc = "done" /\ rd.exists) =>
        /\ Len(rd.file) <= rd.max_size =>
              /\ rd.ret = Len(rd.file)
              /\ rd.buffer = rd.file
        /\ Len(rd.file) > rd.max_size => rd.ret = -1
        /\ rd.ret >= 0 => SubSeq(rd.buffer, 1, rd.ret) = rd.file

\* a file of exactly max_size bytes has been read and its length returned
C19_Witness ==
    /\ rd.pc = "done"
    /\ rd.exists
    /\ rd.max_size > 0
    /\ Len(rd.file) = rd.max_size
    /\ rd.ret = rd.max_size
    /\ 255 \in {rd.buffer[k] : k \in 1..Len(rd.buffer)}

(***************************************************************************)
(* Properties of execute_program's loops (SpecBf).                         *)
(***************************************************************************)
\* the instruction just after a '[' is reached only with a non-zero cell,
\* the one just after a ']' only with a zero cell
GuardHeld ==
    (main_pc = "exec" /\ pc > 0) =>
        /\ At(program, pc - 1) = "[" => Load(memory, cell) # 0
        /\ At(program, pc - 1) = "]" => Load(memory, cell) = 0

LoopStep ==
    /\ (Fetching("[") /\ InTape(cell) /\ main_pc' = "exec") =>
          IF Load(memory, cell) = 0
          THEN \E q \in Positions(program) : Partner(program, pc, q) /\ pc' = q + 1
          ELSE pc' = pc + 1
    /\ (Fetching("]") /\ InTape(cell) /\ main_pc' = "exec") =>
          IF Load(memory, cell) # 0
          THEN \E q \in Positions(program) : Partner(program, q, pc) /\ pc' = q + 1
          ELSE pc' = pc + 1

\* C20: on a bracket-balanced program the guard is checked at both
\* brackets: the first instruction of a loop body is reached only with the
\* current cell non-zero, the instruction just after a ']' only with the
\* current cell 0; a skip from '[' lands just past its matching ']' and a
\* back-jump from ']' just past its matching '['.
C20_LoopGuards ==
    [][GuardHeld /\ GuardHeld' /\ LoopStep]_vars

\* "-[-]" after the first back-jump: the '-' of the body is reached again,
\* just past the '[', with cell 0 at 254
C20_Witness ==
    /\ main_pc = "exec"
    /\ program = <<"-", "[", "-", "]">>
    /\ pc = 2
    /\ Load(memory, 0) = 254

(***************************************************************************)
(* The two front ends on one source (SpecFrontEnds).                       *)
(***************************************************************************)
Abs(n) == IF n < 0 THEN -n ELSE n

RECURSIVE NodeSize(_, _), SeqSize(_, _, _)
\* the number of commands node stands for
NodeSize(H, node) ==
    LET n == H.nodes[node] IN
    CASE n.type = "AST_SEQUENCE" -> SeqSize(H, node, n.count)
      [] n.type = "AST_LOOP" -> 2 + NodeSize(H, n.body)
      [] n.type = "AST_MOVE_PTR" -> Abs(n.offset)
      [] n.type = "AST_MODIFY_CELL" -> Abs(n.delta)
      [] OTHER -> 1

\* the number of commands the first k children of the Sequence seq stand for
SeqSize(H, seq, k) ==
    IF k = 0 THEN 0
    ELSE SeqSize(H, seq, k - 1)
         + NodeSize(H, H.arrays[H.nodes[seq].children].elems[k])

RECURSIVE LoopSpans(_, _, _)
\* for every Loop at or below node, the indices of its '[' and its ']'
\* among the commands, node's first command being command off
LoopSpans(H, node, off) ==
    LET n == H.nodes[node] IN
    CASE n.type = "AST_SEQUENCE" ->
            UNION {LoopSpans(H, H.arrays[n.children].elems[k],
                             off + SeqSize(H, node, k - 1)) : k \in 1..n.count}
      [] n.type = "AST_LOOP" ->
            {<<off, off + NodeSize(H, node) - 1>>} \cup LoopSpans(H, n.body, off + 1)
      [] OTHER -> {}

\* the indices in src (0-based) of its command bytes, in order
CommandPositions(src) ==
    LET F[n \in 0..Len(src)] ==
            IF n = 0 THEN <<>>
            ELSE IF src[n] \in Commands THEN Append(F[n - 1], n - 1) ELSE F[n - 1]
    IN  F[Len(src)]

\* the Loop nodes of the returned AST as pairs of source indices
AstLoopPairs ==
    {<<At(CommandPositions(lexer.source), sp[1]),
       At(CommandPositions(lexer.source), sp[2])>> : sp \in LoopSpans(heap, result, 0)}

\* the pairs build_jump_table recorded
JumpTablePairs ==
    {<<p, jump_table[p]>> : p \in {p \in Positions(program) : At(program, p) = "["}}

BothDone == parse_state = "returned" /\ main_pc = "built"

\* C21: for every source, with every allocation succeeding, parser_parse
\* returns a non-null AST if and only if build_jump_table returns 0, and
\* then the '[' / ']' pairs of the jump table are exactly the Loop nodes of
\* the AST, at the same source positions and so with the same nesting.
C21_FrontEndsAgree ==
    BothDone =>
        /\ lexer.source = program
        /\ (result # NULL) <=> (unmatched = 0)
        /\ result # NULL =>
              /\ AstLoopPairs = JumpTablePairs
              /\ \A pr \in JumpTablePairs : jump_table[pr[2]] = pr[1]

\* both accept a source with a loop inside a loop
C21_Witness ==
    /\ BothDone
    /\ result # NULL
    /\ unmatched = 0
    /\ \E a, b \in JumpTablePairs : a[1] < b[1] /\ b[2] < a[2]

(***************************************************************************)
(* The cell pointer and the frame of execute_program.                      *)
(***************************************************************************)
\* C22: for every bracket-balanced program and every input the cell pointer
\* of execute_program stays within the tape, 0 <= cursor < MEMORY_SIZE, in
\* every reachable state, so every '+', '-', '.', ',', '[' and ']' reads or
\* writes a cell of the tape.
C22_CursorInTape == exec_entered => InTape(cell)

ReadsJumpTable ==
    \/ Fetching("[") /\ 0 \in CellValues(memory, cell)
    \/ Fetching("]") /\ CellValues(memory, cell) # {0}

ExecFrame ==
    main_pc = "exec" =>
        /\ jump_table' = jump_table
        /\ program' = program
        /\ program_length' = program_length
        /\ pc \in 0..program_length
        /\ pc' \in 0..program_length
        /\ ReadsJumpTable => jump_table[pc] # Uninit
        /\ \A k \in DOMAIN jump_table :
              At(program, k) \notin {"[", "]"} => jump_table[k] = Uninit
        /\ main_pc' = "done" <=> pc = program_length
        /\ main_pc' = "done" => exit_status' = 0

\* C23: when build_jump_table returned 0, every jump_table entry that
\* execute_program reads is one build_jump_table wrote (the table is
\* uninitialised at every non-bracket index), execute_program never writes
\* the jump table or the program, the program counter stays in
\* 0..program_length, and execution ends, with status 0, exactly when the
\* program counter reaches program_length.
C23_ExecFrame == [][ExecFrame]_vars

(***************************************************************************)
(* The tokenizer's cursor (SpecLexer).                                     *)
(***************************************************************************)
PositionInRange(lx) == 0 <= lx.position /\ lx.position <= lx.length

\* lexer_next_token reads source[position] and then increments position,
\* for skipped bytes and for the command alike: the bytes a call reads are
\* those the cursor passes
IndicesRead == lexer.position .. (lexer'.position - 1)

\* C24: in every reachable state of a lexer created with length L >= 0,
\* 0 <= position <= L; position never decreases; the source buffer is read
\* only at indices < L; for any sequence of lexer_peek and lexer_next
\* calls, those after EndOfInput included.
C24_LexerCursor ==
    [][/\ PositionInRange(lexer)
       /\ PositionInRange(lexer')
       /\ lexer'.position >= lexer.position
       /\ lexer'.length = lexer.length
       /\ lexer'.source = lexer.source
       /\ \A k \in IndicesRead : 0 <= k /\ k < lexer.length]_vars

\* a second lexer_peek in a row returns EndOfInput, after two lexer_next:
\* the cursor rests at L, past a skipped byte and a command
C24_Witness ==
    /\ seen_eof
    /\ last_op = "peek"
    /\ last_ret = "TOKEN_EOF"
    /\ peeks_in_row = 2
    /\ n_next >= 2
    /\ lexer.length >= 2
    /\ lexer.position = lexer.length
    /\ Len(CommandsOf(lexer.source)) = 1

(***************************************************************************)
(* Progress of the parser (SpecParser).                                    *)
(***************************************************************************)
\* the tokens consumed so far: the commands the cursor has passed, less
\* the one that is scanned and cached but not yet taken by lexer_next
Consumed(lx) ==
    Len(CommandsOf(SubSeq(lx.source, 1, lx.position)))
    - (IF lx.token_valid = 1 /\ lx.current_token.type # "TOKEN_EOF" THEN 1 ELSE 0)

\* the tokens one node stands for by itself
OwnTokens(n) ==
    CASE n.type = "AST_MOVE_PTR" -> Abs(n.offset)
      [] n.type = "AST_MODIFY_CELL" -> Abs(n.delta)
      [] n.type = "AST_OUTPUT" -> 1
      [] n.type = "AST_INPUT" -> 1
      [] n.type = "AST_LOOP" -> IF n.body # NULL THEN 2 ELSE 1
      [] OTHER -> 0

RECURSIVE TokensHeld(_, _)
\* the tokens the first k nodes of the heap stand for
TokensHeld(H, k) ==
    IF k = 0 THEN 0 ELSE TokensHeld(H, k - 1) + OwnTokens(H.nodes[k])

NothingFreed(H) == \A k \in 1..Len(H.nodes) : H.nodes[k].freed = 0

\* while nothing has been given up, every token consumed is held by
\* exactly one node: none is consumed twice, none is consumed and dropped
TokensAccounted ==
    (parse_state \in {"running", "returned"} /\ NothingFreed(heap)) =>
        Consumed(lexer) = TokensHeld(heap, Len(heap.nodes))

\* one step of the parser: a call of parse_statement consumes a token,
\* enters parse_loop (which consumes the '[') or fails; a statement that
\* came back stands for at least one token; nothing is ever un-consumed
ParserProgress ==
    /\ Consumed(lexer') >= Consumed(lexer)
    /\ Consumed(lexer') <= Len(CommandsOf(lexer.source))
    /\ (parse_state = "running" /\ frames # <<>> /\ Top.pc = "call") =>
          \/ Consumed(lexer') > Consumed(lexer)
          \/ Len(frames') = Len(frames) + 1
          \/ /\ Len(frames') = Len(frames)
             /\ frames'[Len(frames')].stmt = NULL
             /\ frames'[Len(frames')].pc = "after"
    /\ Running("parse_loop", "begin") => Consumed(lexer') = Consumed(lexer) + 1
    /\ (parse_state = "running" /\ frames # <<>> /\ Top.pc = "after"
        /\ Top.stmt # NULL) => NodeSize(heap, Top.stmt) >= 1

\* the commands not yet consumed
Remaining == Len(CommandsOf(lexer.source)) - Consumed(lexer)

\* where the running function stands in its iteration; a statement that
\* came back ("after", not NULL) has already paid with a token
PlaceRank ==
    IF parse_state # "running" \/ frames = <<>> THEN 0
    ELSE CASE Top.pc = "begin" /\ Top.fn = "parser_parse" -> 30
           [] Top.pc = "begin" /\ Top.fn = "parse_loop" -> 14
           [] Top.pc = "while" -> 20
           [] Top.pc = "call" -> 15
           [] Top.pc = "close" -> 15
           [] Top.pc = "after" /\ Top.stmt # NULL -> 40
           [] OTHER -> Len(frames)

\* a measure every step of the parser lowers
Rank == 32 * Remaining + PlaceRank

\* C25: parser_parse terminates on every finite source, accepted or
\* rejected (every step lowers a natural-number measure, and the parser
\* is never stuck before it returns): every parse_statement call that
\* returns a node has consumed at least one token, every iteration of the
\* statement loops of parser_parse and parse_loop consumes a token or
\* returns failure, and no token is consumed twice.
C25_ParserTerminates ==
    [][/\ TokensAccounted /\ TokensAccounted'
       /\ ParserProgress
       /\ Rank >= 0 /\ Rank' >= 0
       /\ Rank' < Rank
       /\ Len(frames) < 14
       /\ parse_state' = "running" => CanStep'
       /\ parse_state' # "crashed"]_vars

\* a rejected source after a full statement and an opened loop
C25_Witness ==
    /\ parse_state = "returned"
    /\ result = NULL
    /\ Len(heap.nodes) >= 4
    /\ Consumed(lexer) >= 3

(***************************************************************************)
(* The interpreter's exit status (SpecUnmatched).                          *)
(***************************************************************************)
\* C26: whenever the program has at least one unmatched bracket, the
\* process exit status, main's return value (the unmatched total) reduced
\* modulo 256, is non-zero, for every unmatched total from 1 up to
\* PROGRAM_SIZE.
C26_FailureStatusNonZero ==
    (main_pc = "done" /\ unmatched > 0) =>
        /\ exit_status = unmatched
        /\ ProcessStatus(exit_status) # 0

====
